---- MODULE Spec2Model ----
(***************************************************************************)
(* TransSpell (src/transspell.py): a spelling corrector made of a token    *)
(* cleaner, a rule-based error detector (dictionaries + corpus frequency)  *)
(* and a sentence corrector driven by a masked language model.             *)
(*                                                                         *)
(* Strings are sequences of one-character strings.  Three specifications   *)
(* share the module: SpecClean (clean_token), SpecDetect / SpecCtor        *)
(* (__init__, generate_frequency_list, is_error) and SpecCorrect           *)
(* (correct_errors, generate_candidates).                                  *)
(***************************************************************************)
EXTENDS Integers, Sequences, FiniteSets, TLC

VARIABLES
    \* clean_token, called on its own
    ct_token,           \* the argument of the last clean_token call
    ct_result,          \* what that call returned
    ct_calls,           \* how many calls were made in the chain
    \* the TransSpell instance and its environment
    inst,               \* "ready" when __init__ returned, "failed" when it raised
    char_minimum,       \* self.char_minimum
    frequency_maximum,  \* self.frequency_maximum
    corpus_path,        \* the corpus_path argument of __init__
    frequency_list,     \* self.frequency_list
    dict_us,            \* self.dict_us: "None" or "Dict"
    dict_gb,            \* self.dict_gb
    corpus,             \* the rows of the "answers" column of the corpus file
    us_available,       \* whether enchant can provide en_US
    gb_available,       \* whether enchant can provide en_GB
    us_words,           \* the words en_US knows
    gb_words,           \* the words en_GB knows
    ie_token,           \* the argument of the last is_error call
    ie_result,          \* "none", "True", "False" or "raise"
    \* one correct_errors call
    pc,                 \* position in correct_errors
    sequence,           \* the argument
    temp_sent,          \* the working token list
    i,                  \* the loop index (0-based, as in the code)
    sent,               \* the masked sentence handed to generate_candidates
    results,            \* the candidate list of the last position
    invocations,        \* the model invocations so far: position and input
    returned            \* the returned sentence

cleanVars   == <<ct_token, ct_result, ct_calls>>
envVars     == <<corpus, us_available, gb_available, us_words, gb_words>>
instVars    == <<inst, char_minimum, frequency_maximum, corpus_path,
                 frequency_list, dict_us, dict_gb, ie_token, ie_result>>
detectVars  == <<instVars, envVars>>
correctVars == <<pc, sequence, temp_sent, i, sent, results, invocations, returned>>
vars        == <<cleanVars, detectVars, correctVars>>

----------------------------------------------------------------------------
(* Bounds *)

MaxLen == 3         \* longest token handed to clean_token
MaxTokenLen == 2    \* longest token handed to is_error
MaxRows == 1        \* most rows in the corpus file
MaxMinimum == 1     \* largest minimum_token_length given to __init__
MaxMaximum == 1     \* largest maximum_frequency given to __init__
MaxSentLen == 4     \* longest sentence handed to correct_errors
topn == 2           \* length of the candidate list (25 at line 74)

----------------------------------------------------------------------------
(* Characters *)

\* a lower-case letter, an upper-case letter, the apostrophe, the hyphen,
\* another non-word character
Chars == {"a", "B", "'", "-", "!"}

\* re.match(r"\W", char): the character is not a word character
IsNonWord(char) == char \in {"'", "-", "!", " ", ","}

\* str.lower() on one character
Lower(char) ==
    CASE char = "A" -> "a"
      [] char = "B" -> "b"
      [] char = "X" -> "x"
      [] OTHER -> char

\* str.lower() on a string
LowerStr(s) == [k \in 1..Len(s) |-> Lower(s[k])]

\* all strings over an alphabet up to a length
RECURSIVE StringsUpTo(_, _)
StringsUpTo(alphabet, n) ==
    IF n = 0 THEN {<<>>}
    ELSE LET shorter == StringsUpTo(alphabet, n - 1)
         IN  shorter \cup {Append(s, c) : s \in shorter, c \in alphabet}

Tokens == StringsUpTo(Chars, MaxLen)

----------------------------------------------------------------------------
(* clean_token *)

\* the test of lines 133-139 on the character at 0-based index k - 1:
\* TRUE when the character is appended
KeepsChar(token, k) ==
    LET char == token[k]
    IN  IF IsNonWord(char)
        THEN IF char \notin {"'", "-"} THEN FALSE
             ELSE IF char = "'" /\ (k - 1) # Len(token) - 2 THEN FALSE
             ELSE TRUE
        ELSE TRUE

RECURSIVE CleanLoop(_, _, _)
CleanLoop(token, k, acc) ==
    IF k > Len(token) THEN acc
    ELSE CleanLoop(token, k + 1,
                   IF KeepsChar(token, k) THEN Append(acc, Lower(token[k])) ELSE acc)

clean_token(token) == CleanLoop(token, 1, <<>>)

\* a first call of clean_token
CleanCall ==
    /\ ct_calls = 0
    /\ \E token \in Tokens :
         /\ ct_token' = token
         /\ ct_result' = clean_token(token)
    /\ ct_calls' = 1
    /\ UNCHANGED <<detectVars, correctVars>>

\* clean_token called on what the previous call returned
CleanAgain ==
    /\ ct_calls = 1
    /\ ct_token' = ct_result
    /\ ct_result' = clean_token(ct_result)
    /\ ct_calls' = 2
    /\ UNCHANGED <<detectVars, correctVars>>

----------------------------------------------------------------------------
(* The environment of an instance: the corpus file and the dictionaries *)

\* texts of the "answers" column
Texts == { <<"a", "B", " ", "a", "B", "!">>,
           <<"!", " ", " ", "a">> }

RECURSIVE SeqsUpTo(_, _)
SeqsUpTo(S, n) ==
    IF n = 0 THEN {<<>>}
    ELSE LET shorter == SeqsUpTo(S, n - 1)
         IN  shorter \cup {Append(s, x) : s \in shorter, x \in S}

Corpora == SeqsUpTo(Texts, MaxRows)

\* the words en_US may know, and those en_GB may know
UsWords == { <<"a", "b">> }
GbWords == { <<"b", "a">> }

\* the kinds of corpus_path: not given, no such file, a file that cannot be
\* read as a table with an "answers" column, a well-formed file
Paths == {"None", "missing", "malformed", "present"}

DetectTokens == StringsUpTo({"a", "B", "'"}, MaxTokenLen)

----------------------------------------------------------------------------
(* generate_frequency_list *)

NoFrequencyList == [kind |-> "None"]
Counter(counts) == [kind |-> "Counter", counts |-> counts]

\* str.split() without arguments: the maximal runs of non-space characters
RECURSIVE SplitWhitespace(_, _, _, _)
SplitWhitespace(text, k, word, acc) ==
    IF k > Len(text)
    THEN IF word = <<>> THEN acc ELSE Append(acc, word)
    ELSE IF text[k] = " "
         THEN SplitWhitespace(text, k + 1, <<>>,
                              IF word = <<>> THEN acc ELSE Append(acc, word))
         ELSE SplitWhitespace(text, k + 1, Append(word, text[k]), acc)

\* collections.Counter.update with a list
RECURSIVE CounterUpdate(_, _, _)
CounterUpdate(counts, answer, k) ==
    IF k > Len(answer) THEN counts
    ELSE LET w == answer[k]
             n == IF w \in DOMAIN counts THEN counts[w] ELSE 0
         IN  CounterUpdate([x \in DOMAIN counts \cup {w} |->
                               IF x = w THEN n + 1 ELSE counts[x]],
                           answer, k + 1)

\* lines 118-122: the loop over the rows
RECURSIVE CountRows(_, _, _)
CountRows(df, r, counts) ==
    IF r > Len(df) THEN counts
    ELSE LET words  == SplitWhitespace(df[r], 1, <<>>, <<>>)
             answer == [k \in 1..Len(words) |-> clean_token(words[k])]
         IN  CountRows(df, r + 1, CounterUpdate(counts, answer, 1))

\* generate_frequency_list without the except clause of lines 113-115
generate_frequency_list_noExcept(path, current) ==
    CASE path \in {"missing", "malformed"} ->
           [raised |-> TRUE, ret |-> NoFrequencyList, frequency_list |-> current]
      [] OTHER ->
           [raised |-> FALSE, ret |-> NoFrequencyList,
            frequency_list |-> Counter(CountRows(corpus, 1, <<>>))]

\* generate_frequency_list(path) on an instance whose frequency_list is
\* current: whether it raised, what it returned, and self.frequency_list
\* afterwards.  The function has no return statement after the loop.
generate_frequency_list(path, current) ==
    CASE path = "missing" ->
           [raised |-> FALSE, ret |-> NoFrequencyList, frequency_list |-> current]
      [] path = "malformed" ->
           [raised |-> TRUE, ret |-> NoFrequencyList, frequency_list |-> current]
      [] OTHER ->
           [raised |-> FALSE, ret |-> NoFrequencyList,
            frequency_list |-> Counter(CountRows(corpus, 1, <<>>))]

----------------------------------------------------------------------------
(* __init__ *)

\* the instance after TransSpell(minimum_token_length, maximum_frequency,
\* corpus_path)
TransSpellInit(minimum_token_length, maximum_frequency, path) ==
    LET built == generate_frequency_list(path, NoFrequencyList)
    IN  /\ char_minimum = minimum_token_length
        /\ frequency_maximum = maximum_frequency
        /\ corpus_path = path
        /\ dict_us = "None"
        /\ dict_gb = "None"
        /\ IF path = "None"
           THEN inst = "ready" /\ frequency_list = NoFrequencyList
           ELSE IF built.raised
                THEN inst = "failed" /\ frequency_list = NoFrequencyList
                ELSE inst = "ready" /\ frequency_list = built.ret

----------------------------------------------------------------------------
(* is_error *)

\* truth value of self.frequency_list: None and an empty Counter are false
Truthy(fl) == fl.kind = "Counter" /\ DOMAIN fl.counts # {}

\* Counter.__getitem__: 0 for a missing key
Count(fl, token) == IF token \in DOMAIN fl.counts THEN fl.counts[token] ELSE 0

\* the verdict with < for <= at line 43
Verdict_strictLength(token) ==
    IF Len(token) < char_minimum THEN "False"
    ELSE IF Truthy(frequency_list) /\ Count(frequency_list, token) > frequency_maximum
         THEN "False"
    ELSE IF token \in us_words \/ token \in gb_words THEN "False"
    ELSE "True"

\* the verdict with >= for > at line 48
Verdict_frequencyInclusive(token) ==
    IF Len(token) <= char_minimum THEN "False"
    ELSE IF Truthy(frequency_list) /\ Count(frequency_list, token) >= frequency_maximum
         THEN "False"
    ELSE IF token \in us_words \/ token \in gb_words THEN "False"
    ELSE "True"

\* lines 42-55, with both dictionaries loaded
Verdict(token) ==
    IF Len(token) <= char_minimum THEN "False"
    ELSE IF Truthy(frequency_list) /\ Count(frequency_list, token) > frequency_maximum
         THEN "False"
    ELSE IF token \in us_words \/ token \in gb_words THEN "False"
    ELSE "True"

\* is_error(raw): the result (or "raise") and the dictionaries afterwards
is_error(raw) ==
    LET token == clean_token(raw)
    IN  IF dict_us = "None" /\ ~us_available
        THEN [result |-> "raise", dict_us |-> dict_us, dict_gb |-> dict_gb]
        ELSE IF dict_gb = "None" /\ ~gb_available
        THEN [result |-> "raise", dict_us |-> "Dict", dict_gb |-> dict_gb]
        ELSE [result |-> Verdict(token), dict_us |-> "Dict", dict_gb |-> "Dict"]

IsErrorCall(raw) ==
    /\ inst = "ready"
    /\ LET r == is_error(raw)
       IN  /\ ie_token' = raw
           /\ ie_result' = r.result
           /\ dict_us' = r.dict_us
           /\ dict_gb' = r.dict_gb
    /\ UNCHANGED <<inst, char_minimum, frequency_maximum, corpus_path, frequency_list>>
    /\ UNCHANGED <<envVars, cleanVars, correctVars>>

\* generate_frequency_list called on a constructed instance
GenerateFrequencyListCall(path) ==
    /\ inst = "ready"
    /\ LET r == generate_frequency_list(path, frequency_list)
       IN  frequency_list' = r.frequency_list
    /\ UNCHANGED <<inst, char_minimum, frequency_maximum, corpus_path,
                   dict_us, dict_gb, ie_token, ie_result>>
    /\ UNCHANGED <<envVars, cleanVars, correctVars>>

----------------------------------------------------------------------------
(* The tokenizer and the language model *)

\* characters of sentences: a stopword letter, a capital, the separator
SentChars == {"a", "X", " "}

Sentences == StringsUpTo(SentChars, MaxSentLen)

\* self.stopwords: the nltk list is lower-case and contains "a"
stopwords == { <<"a">> }

\* self.tokenizer.mask_token
mask_token == <<"[", "M", "A", "S", "K", "]">>

\* the tokenizer's vocabulary, by identifier; no entry contains a space
Vocab == << <<"x">>, <<"a">>, <<"o", "k">> >>

\* self.tokenizer.decode([id])
decode(id) == Vocab[id]

\* what generate_candidates may return: torch.topk gives n distinct
\* identifiers, best first; which ones is up to the model
generate_candidates(masked, n) ==
    { ids \in [1..n -> 1..Len(Vocab)] :
        \A a, b \in 1..n : a # b => ids[a] # ids[b] }

----------------------------------------------------------------------------
(* correct_errors *)

\* str.split(" "): split at every single space, empty strings kept
RECURSIVE SplitLoop(_, _, _, _)
SplitLoop(s, k, word, acc) ==
    IF k > Len(s) THEN Append(acc, word)
    ELSE IF s[k] = " "
         THEN SplitLoop(s, k + 1, <<>>, Append(acc, word))
         ELSE SplitLoop(s, k + 1, Append(word, s[k]), acc)

Split(s) == SplitLoop(s, 1, <<>>, <<>>)

\* " ".join(list)
RECURSIVE JoinLoop(_, _, _)
JoinLoop(list, k, acc) ==
    IF k > Len(list) THEN acc
    ELSE JoinLoop(list, k + 1,
                  IF k = 1 THEN list[k] ELSE acc \o <<" ">> \o list[k])

Join(list) == JoinLoop(list, 1, <<>>)

\* line 69 without the test for the first token
Skipped_firstChecked(index, token) == token \in stopwords

\* line 69 without the test for stopwords
Skipped_stopwordsChecked(index, token) == index = 0

\* line 69: the positions that are not checked
Skipped(index, token) == index = 0 \/ token \in stopwords

\* lines 71-73 copying the input's tokens instead of temp_sent
MaskedSentence_fromOriginal(working, original, index) ==
    Join([original EXCEPT ![index + 1] = mask_token])

\* lines 71-73: the masked sentence for position index
MaskedSentence(working, original, index) ==
    Join([working EXCEPT ![index + 1] = mask_token])

\* line 81 without the two lower() calls
Matches_caseSensitive(suggestion, token) == suggestion = token

\* line 81: the comparison of a decoded suggestion with the token
Matches(suggestion, token) == LowerStr(suggestion) = LowerStr(token)

\* lines 75-83: the scan of the candidate list, which decodes in place and
\* stops at the first match
RECURSIVE ScanLoop(_, _, _)
ScanLoop(list, j, token) ==
    IF j > Len(list) THEN [results |-> list, contained_in_suggestions |-> FALSE]
    ELSE LET suggestion == decode(list[j])
             decoded    == [list EXCEPT ![j] = suggestion]
         IN  IF Matches(suggestion, token)
             THEN [results |-> decoded, contained_in_suggestions |-> TRUE]
             ELSE ScanLoop(decoded, j + 1, token)

\* line 85 as an insertion: temp_sent.insert(i, results[0])
Substitute_insert(list, index, value) ==
    SubSeq(list, 1, index) \o <<value>> \o SubSeq(list, index + 1, Len(list))

\* line 85: temp_sent[i] = results[0]
Substitute(list, index, value) == [list EXCEPT ![index + 1] = value]

\* correct_errors is entered: lines 65-66
CorrectErrorsCall ==
    /\ pc = "idle"
    /\ \E s \in Sentences :
         /\ sequence' = s
         /\ temp_sent' = Split(s)
    /\ i' = 0
    /\ pc' = "loop"
    /\ UNCHANGED <<sent, results, invocations, returned>>
    /\ UNCHANGED <<cleanVars, detectVars>>

\* one iteration that hits the continue of line 70
LoopSkip ==
    /\ pc = "loop"
    /\ i < Len(Split(sequence))
    /\ Skipped(i, Split(sequence)[i + 1])
    /\ i' = i + 1
    /\ UNCHANGED <<pc, sequence, temp_sent, sent, results, invocations, returned>>
    /\ UNCHANGED <<cleanVars, detectVars>>

\* lines 71-74 up to the model's forward pass inside generate_candidates
LoopMask ==
    /\ pc = "loop"
    /\ i < Len(Split(sequence))
    /\ ~Skipped(i, Split(sequence)[i + 1])
    /\ sent' = MaskedSentence(temp_sent, Split(sequence), i)
    /\ invocations' = Append(invocations,
                             [position |-> i, input |-> sent', finished |-> FALSE,
                              ids |-> <<>>])
    /\ pc' = "model"
    /\ UNCHANGED <<sequence, temp_sent, i, results, returned>>
    /\ UNCHANGED <<cleanVars, detectVars>>

\* generate_candidates returns; lines 75-85 follow
ModelReturn ==
    /\ pc = "model"
    /\ \E ids \in generate_candidates(sent, topn) :
         LET token == Split(sequence)[i + 1]
             scan  == ScanLoop(ids, 1, token)
         IN  /\ results' = scan.results
             /\ temp_sent' = IF scan.contained_in_suggestions THEN temp_sent
                             ELSE Substitute(temp_sent, i, scan.results[1])
             /\ invocations' = [invocations EXCEPT
                                  ![Len(invocations)].finished = TRUE,
                                  ![Len(invocations)].ids = ids]
    /\ i' = i + 1
    /\ pc' = "loop"
    /\ UNCHANGED <<sequence, sent, returned>>
    /\ UNCHANGED <<cleanVars, detectVars>>

\* line 86
Return ==
    /\ pc = "loop"
    /\ i = Len(Split(sequence))
    /\ returned' = Join(temp_sent)
    /\ pc' = "done"
    /\ UNCHANGED <<sequence, temp_sent, i, sent, results, invocations>>
    /\ UNCHANGED <<cleanVars, detectVars>>

----------------------------------------------------------------------------
(* Specifications *)

CleanIdle   == ct_token = <<>> /\ ct_result = <<>> /\ ct_calls = 0

DetectIdle  ==
    /\ corpus = <<>> /\ us_available = TRUE /\ gb_available = TRUE
    /\ us_words = {} /\ gb_words = {}
    /\ TransSpellInit(3, 10, "None")
    /\ ie_token = <<>> /\ ie_result = "none"

CorrectIdle ==
    /\ pc = "idle" /\ sequence = <<>> /\ temp_sent = <<>> /\ i = 0
    /\ sent = <<>> /\ results = <<>> /\ invocations = <<>> /\ returned = <<>>

\* clean_token on its own
InitClean == CleanIdle /\ DetectIdle /\ CorrectIdle
NextClean == CleanCall \/ CleanAgain
SpecClean == InitClean /\ [][NextClean]_vars

\* an instance as __init__ leaves it, in some environment
InitDetect ==
    /\ CleanIdle /\ CorrectIdle
    /\ corpus \in Corpora
    /\ us_available \in BOOLEAN /\ gb_available \in BOOLEAN
    /\ us_words \in (IF us_available THEN SUBSET UsWords ELSE {{}})
    /\ gb_words \in (IF gb_available THEN SUBSET GbWords ELSE {{}})
    /\ \E minimum \in 0..MaxMinimum, maximum \in 0..MaxMaximum, path \in Paths :
         TransSpellInit(minimum, maximum, path)
    /\ ie_token = <<>> /\ ie_result = "none"

\* construction followed by is_error calls only
NextCtor == \E raw \in DetectTokens : IsErrorCall(raw)
SpecCtor == InitDetect /\ [][NextCtor]_vars

\* construction followed by is_error and generate_frequency_list calls
NextDetect ==
    \/ \E raw \in DetectTokens : IsErrorCall(raw)
    \/ \E path \in Paths \ {"None"} : GenerateFrequencyListCall(path)
SpecDetect == InitDetect /\ [][NextDetect]_vars

\* one correct_errors call
InitCorrect == CleanIdle /\ DetectIdle /\ CorrectIdle
NextCorrect == CorrectErrorsCall \/ LoopSkip \/ LoopMask \/ ModelReturn \/ Return
SpecCorrect == InitCorrect /\ [][NextCorrect]_vars

Init == InitDetect
Next == NextDetect
Spec == SpecDetect

----------------------------------------------------------------------------
(* Properties of clean_token (SpecClean) *)

\* C1: cleaning is idempotent: clean_token applied to what clean_token
\* returned gives that same string back
C1_CleaningIdempotent == ct_calls = 2 => ct_result = ct_token

----------------------------------------------------------------------------
(* Properties of correct_errors (SpecCorrect) *)

InTokens  == Split(sequence)
OutTokens == Split(returned)

\* the 1-based positions of the input that are checked
Checked == { p \in 1..Len(InTokens) : p # 1 /\ InTokens[p] \notin stopwords }

\* C2: the returned sentence has the input's token at index 0 and the
\* input's token at every index where the input has a stopword
C2_FirstAndStopwordsKept ==
    pc = "done" =>
        /\ OutTokens[1] = InTokens[1]
        /\ \A p \in 1..Len(InTokens) :
             InTokens[p] \in stopwords =>
                 p <= Len(OutTokens) /\ OutTokens[p] = InTokens[p]

\* a call returned a changed sentence whose input has a stopword after the
\* first token
C2_Witness ==
    /\ pc = "done"
    /\ returned # sequence
    /\ \E p \in 2..Len(InTokens) : InTokens[p] \in stopwords

\* C3: the returned sentence, split on single spaces, has as many tokens as
\* the input split on single spaces
C3_TokenCountKept == pc = "done" => Len(OutTokens) = Len(InTokens)

\* a call on at least three tokens, one of them empty, replaced a token
C3_Witness ==
    /\ pc = "done"
    /\ Len(InTokens) >= 3
    /\ \E p \in 1..Len(InTokens) : InTokens[p] = <<>>
    /\ \E p \in 1..Len(InTokens) : temp_sent[p] # InTokens[p]

\* C4: at every checked position the returned token is the input's token
\* when one of the decoded candidates equals it up to case, and the decoded
\* first candidate otherwise
C4_SubstitutionDecision ==
    pc = "done" =>
        \A p \in Checked :
            \E v \in 1..Len(invocations) :
                /\ invocations[v].position = p - 1
                /\ LET ids == invocations[v].ids
                   IN  IF \E j \in 1..topn :
                              LowerStr(decode(ids[j])) = LowerStr(InTokens[p])
                       THEN OutTokens[p] = InTokens[p]
                       ELSE OutTokens[p] = decode(ids[1])

\* a call kept one token that a candidate matched only up to case and
\* replaced another token
C4_Witness ==
    /\ pc = "done"
    /\ \E v \in 1..Len(invocations) :
         LET p == invocations[v].position + 1
         IN  /\ \E j \in 1..topn : /\ decode(invocations[v].ids[j]) # InTokens[p]
                                   /\ LowerStr(decode(invocations[v].ids[j]))
                                        = LowerStr(InTokens[p])
             /\ \A j \in 1..topn : decode(invocations[v].ids[j]) # InTokens[p]
             /\ OutTokens[p] = InTokens[p]
    /\ \E p \in Checked : OutTokens[p] # InTokens[p]

\* the 0-based positions whose iteration has begun
Begun == { k \in 0..(Len(InTokens) - 1) :
             k < i \/ (k = i /\ pc = "model") \/ pc = "done" }

\* C9: the model is invoked once for each checked position and for no
\* other, in increasing order of position, and an invocation has finished
\* before the next one starts
C9_OneInvocationPerPosition ==
    pc # "idle" =>
        /\ \A v \in 1..Len(invocations) :
             invocations[v].position + 1 \in Checked
        /\ \A v, w \in 1..Len(invocations) :
             v < w => /\ invocations[v].position < invocations[w].position
                      /\ invocations[v].finished
        /\ \A k \in Begun :
             (k + 1 \in Checked) =>
                 \E v \in 1..Len(invocations) : invocations[v].position = k
        /\ (pc = "model") =
             (invocations # <<>> /\ ~invocations[Len(invocations)].finished)

\* a call returned after two invocations, having skipped a stopword
C9_Witness ==
    /\ pc = "done"
    /\ Len(invocations) >= 2
    /\ \E p \in 2..Len(InTokens) : InTokens[p] \in stopwords

\* C10: the sentence sent to the model for position i holds the mask at i,
\* the working list's tokens (substitutions included) before i and the
\* input's tokens after i; the token at a position not yet finished is
\* still the input's, so the skip test and the match use the input's token
C10_MaskedFromWorkingList ==
    /\ \A v \in 1..Len(invocations) :
         LET masked == Split(invocations[v].input)
             p      == invocations[v].position + 1
         IN  /\ Len(masked) = Len(InTokens)
             /\ masked[p] = mask_token
             /\ \A k \in 1..Len(InTokens) :
                  /\ k < p => masked[k] = temp_sent[k]
                  /\ k > p => masked[k] = InTokens[k]
    /\ pc \in {"loop", "model"} =>
         \A k \in 1..Len(InTokens) : k > i => temp_sent[k] = InTokens[k]

\* the model was sent a sentence holding an earlier substitution and a
\* later token of the input
C10_Witness ==
    \E v \in 1..Len(invocations) :
        LET p == invocations[v].position + 1
        IN  /\ \E k \in 1..(p - 1) : temp_sent[k] # InTokens[k]
            /\ p < Len(InTokens)

----------------------------------------------------------------------------
(* Properties of __init__ and is_error (SpecCtor, SpecDetect) *)

Cleaned == clean_token(ie_token)

BothAvailable == us_available /\ gb_available

CorpusWords(r) == SplitWhitespace(corpus[r], 1, <<>>, <<>>)

\* the occurrences of tokens in the corpus file: row and place in the row
CorpusTokens ==
    UNION { { <<r, k>> : k \in 1..Len(CorpusWords(r)) } : r \in 1..Len(corpus) }

\* how often a cleaned token occurs in the corpus file
CorpusCount(w) ==
    Cardinality({ o \in CorpusTokens : clean_token(CorpusWords(o[1])[o[2]]) = w })

\* C5: an instance built with the path of a well-formed corpus file has a
\* frequency table that maps every cleaned corpus token to its count, and
\* is_error returns false for a token longer than the minimum whose count
\* exceeds the maximum
C5_FrequencyTableBuilt ==
    (inst = "ready" /\ corpus_path = "present") =>
        /\ frequency_list.kind = "Counter"
        /\ \A w \in DOMAIN frequency_list.counts :
             frequency_list.counts[w] = CorpusCount(w)
        /\ \A w \in DetectTokens :
             CorpusCount(w) > 0 => w \in DOMAIN frequency_list.counts
        /\ ( /\ ie_result \in {"True", "False"}
             /\ Len(Cleaned) > char_minimum
             /\ CorpusCount(Cleaned) > frequency_maximum )
           => ie_result = "False"

\* C6: is_error returns false for a token whose cleaned form is no longer
\* than the minimum, whatever the dictionaries and the frequency table are
C6_ShortTokenReturnsFalse ==
    (ie_result # "none" /\ Len(Cleaned) <= char_minimum) => ie_result = "False"

\* C6, amended: for such a token is_error returns false when both
\* dictionaries can be loaded, and raises when one cannot
C6_ShortTokenAmended ==
    (ie_result # "none" /\ Len(Cleaned) <= char_minimum) =>
        ie_result = (IF BothAvailable THEN "False" ELSE "raise")

\* is_error returned false for a short token that is in no dictionary and
\* not frequent in the existing frequency table
C6_Witness ==
    /\ ie_result = "False"
    /\ Len(Cleaned) <= char_minimum
    /\ Cleaned \notin us_words \cup gb_words
    /\ frequency_list.kind = "Counter"
    /\ Cleaned \in DOMAIN frequency_list.counts
    /\ frequency_list.counts[Cleaned] <= frequency_maximum

\* the verdict when no frequency table takes part
VerdictWithoutTable ==
    IF ~BothAvailable THEN "raise"
    ELSE IF /\ Len(Cleaned) > char_minimum
            /\ Cleaned \notin us_words
            /\ Cleaned \notin gb_words
         THEN "True"
         ELSE "False"

\* C7: construction with the path of a file that does not exist does not
\* raise and leaves no frequency table, and is_error then gives the verdict
\* it gives on an instance built without a corpus path
C7_MissingCorpus ==
    /\ corpus_path = "missing" =>
         /\ inst = "ready"
         /\ frequency_list = NoFrequencyList
    /\ (corpus_path \in {"missing", "None"} /\ ie_result # "none") =>
         ie_result = VerdictWithoutTable

\* is_error flagged a token on an instance built with a missing corpus file
C7_Witness ==
    /\ corpus_path = "missing"
    /\ inst = "ready"
    /\ ie_result = "True"

====
